---- MODULE Spec2Model ----
\* Model of the CSV ingestion service of src/main.py: the upload spooler, the
\* three pandas-based fetchers, the loader, the notifier and the orchestrator
\* process_csv_generic, for a small number of runs over a shared /tmp and a
\* shared database.
EXTENDS Integers, Sequences, FiniteSets, TLC

\* ---------------------------------------------------------------- bounds
\* Number of data lines a source holds at most.
MaxRows == 3
\* chunksize of pd.read_csv (50_000 in the program, small here so that a
\* source of MaxRows lines gives more than one batch).
ChunkSize == 1

Runs == {1, 2}

\* ------------------------------------------------------------ characters
\* A string is a sequence of characters; a character is a one-name string.
\* "e'" stands for a non-ASCII lowercase letter (e acute), "I." for U+0130
\* (capital I with dot above) and "^." for U+0307 (combining dot above).
Chars == {"a", "A", "d", "I", "1", "_", "!", " ", "e'", "I.", "^."}

AsciiLower == {"a", "d", "c", "h", "t", "i", "u", "s", "r", "o", "b", "x", "y"}
AsciiUpper == {"A", "I"}
AsciiDigit == {"1", "2", "3", "4"}

IsAsciiLetter(c) == c \in AsciiLower \cup AsciiUpper

\* Python's \w on str: Unicode letters and digits, and the underscore.
IsWordChar(c) == \/ IsAsciiLetter(c)
                 \/ c \in AsciiDigit
                 \/ c = "_"
                 \/ c \in {"e'", "I."}

\* str.lower() of one character (U+0130 lowers to two code points).
LowerChar(c) == CASE c = "A" -> <<"a">>
                  [] c = "I" -> <<"i">>
                  [] c = "I." -> <<"i", "^.">>
                  [] OTHER -> <<c>>

RECURSIVE Lower(_)
Lower(s) == IF s = <<>> THEN <<>> ELSE LowerChar(Head(s)) \o Lower(Tail(s))

\* re.sub(r"\W+", "_", name): every maximal run of non-word characters
\* becomes one underscore.
RECURSIVE SubNonWord(_, _)
SubNonWord(s, inRun) ==
    IF s = <<>> THEN <<>>
    ELSE IF IsWordChar(Head(s)) THEN <<Head(s)>> \o SubNonWord(Tail(s), FALSE)
    ELSE IF inRun THEN SubNonWord(Tail(s), TRUE)
    ELSE <<"_">> \o SubNonWord(Tail(s), TRUE)

Prefix == <<"u", "s", "u", "a", "r", "i", "o", "_">>

sanitize_table_name(name) ==
    LET n1 == SubNonWord(name, FALSE)
        n2 == IF n1 # <<>> /\ IsAsciiLetter(n1[1]) THEN n1 ELSE Prefix \o n1
    IN  Lower(n2)

\* ------------------------------------------------------------------ data
\* A line of a CSV text: its fields, and whether pandas' tokenizer rejects it
\* (a data line with more fields than the parser expects).
ColId == <<"I", "d">>
ChatIdCol == <<"c", "h", "a", "t", "_", "i", "d">>
HeaderLine == [bad |-> FALSE, f |-> <<ColId>>]
BadLine == [bad |-> TRUE, f |-> <<<<"b">>, <<"b">>>>]
RunChar(r) == IF r = 1 THEN "x" ELSE "y"
Digit(i) == IF i = 1 THEN "1" ELSE IF i = 2 THEN "2" ELSE IF i = 3 THEN "3" ELSE "4"
Row(r, i) == [bad |-> FALSE, f |-> <<<<RunChar(r), Digit(i)>>>>]

\* The data lines of a source of run r: n well-formed lines, and optionally
\* one malformed line after the first of them.
Body(r, n, bad) ==
    LET rows == [i \in 1..n |-> Row(r, i)]
    IN  IF ~bad THEN rows
        ELSE IF n = 0 THEN <<BadLine>>
        ELSE <<rows[1], BadLine>> \o SubSeq(rows, 2, n)

\* The sources a request of run r may name: the empty text (entirely
\* unparsable: no header) or a header followed by data lines.
Sources(r) ==
    {<<>>} \cup {<<HeaderLine>> \o Body(r, n, b) : n \in 0..MaxRows, b \in BOOLEAN}

ChatIds == {<<"a">>, <<"A">>, <<"1">>}
TableNames == {sanitize_table_name(c) : c \in ChatIds}
UploadNames == {"u.csv", "v.csv"}
TempPath == "/tmp/temp.csv"
UploadPath(name) == IF name = "u.csv" THEN "/tmp/u.csv" ELSE "/tmp/v.csv"
Paths == {TempPath} \cup {UploadPath(n) : n \in UploadNames}
Kinds == {"drive", "sheet", "upload", "custom"}

NoFile == [exists |-> FALSE, lines |-> <<>>]
File(lines) == [exists |-> TRUE, lines |-> lines]
NoTable == [exists |-> FALSE, cols |-> <<>>, rows |-> <<>>]
NoReq == [kind |-> "none", chat |-> <<>>, name |-> "", src |-> <<>>]
NoReader == [st |-> "new", cols |-> <<>>, rest |-> <<>>, first |-> TRUE, skip |-> FALSE]
NoDF == [cols |-> <<>>, rows |-> <<>>]

Min(a, b) == IF a < b THEN a ELSE b

\* --------------------------------------------------------------- pandas
\* pd.read_csv(text, chunksize=..., on_bad_lines=...): building the reader
\* consumes the header line; an empty text raises EmptyDataError.
ReadCsvFails(lines) == lines = <<>>
ReadCsv(lines, skip) ==
    [st |-> "open", cols |-> Head(lines).f, rest |-> Tail(lines),
     first |-> TRUE, skip |-> skip]

\* The tokenizer reads up to k data lines: a malformed line is dropped under
\* on_bad_lines="skip" and raises ParserError otherwise.
RECURSIVE Take(_, _, _)
Take(lines, k, skip) ==
    IF lines = <<>> \/ k = 0 THEN [rows |-> <<>>, rest |-> lines, err |-> FALSE]
    ELSE IF Head(lines).bad
         THEN IF skip THEN Take(Tail(lines), k, skip)
              ELSE [rows |-> <<>>, rest |-> lines, err |-> TRUE]
    ELSE LET t == Take(Tail(lines), k - 1, skip)
         IN  [rows |-> <<Head(lines).f>> \o t.rows, rest |-> t.rest, err |-> t.err]

\* next() on the chunk reader: "err" (ParserError), "stop" (StopIteration) or
\* "chunk". The first read of a text without data rows gives one empty frame.
NextChunk(rd) ==
    LET t == Take(rd.rest, ChunkSize, rd.skip)
    IN  IF t.err THEN [res |-> "err", df |-> NoDF, rd |-> rd]
        ELSE IF t.rows = <<>> /\ ~rd.first
             THEN [res |-> "stop", df |-> NoDF, rd |-> [rd EXCEPT !.rest = t.rest]]
        ELSE [res |-> "chunk", df |-> [cols |-> rd.cols, rows |-> t.rows],
              rd |-> [rd EXCEPT !.rest = t.rest, !.first = FALSE]]

\* df.to_csv(path, mode, index=False, header): the text written.
ToCsvLines(df, header) ==
    (IF header THEN <<[bad |-> FALSE, f |-> df.cols]>> ELSE <<>>)
    \o [i \in 1..Len(df.rows) |-> [bad |-> FALSE, f |-> df.rows[i]]]

\* ---------------------------------------------------------------- state
VARIABLES
    pc,           \* where each run stands
    req,          \* the request of each run: fetcher, chatId, upload name, source text
    files,        \* the files under /tmp
    tables,       \* the database: one table per sanitized name
    reader,       \* each run's chunk reader (the fetcher generator's state)
    mode,         \* upload_csv_stream's local `mode`
    df,           \* the batch the generator last yielded
    total_rows,   \* process_csv_generic's locals
    first_chunk,
    table_name,
    sent,         \* the send_webhook calls of each run, in order
    failed,       \* the run entered the except branch
    escaped,      \* an exception left process_csv_generic
    cause,        \* what raised into the except branch ("none" if nothing did)
    fetched,      \* history: the batches the fetcher yielded
    loads         \* history: the loads done, each with its if_exists mode

vars == <<pc, req, files, tables, reader, mode, df, total_rows, first_chunk,
          table_name, sent, failed, escaped, cause, fetched, loads>>

Unbound == <<>>
Finished == {"done", "aborted"}

Init ==
    /\ pc = [r \in Runs |-> "idle"]
    /\ req = [r \in Runs |-> NoReq]
    /\ files = [p \in Paths |-> NoFile]
    /\ tables = [t \in TableNames |-> NoTable]
    /\ reader = [r \in Runs |-> NoReader]
    /\ mode = [r \in Runs |-> "w"]
    /\ df = [r \in Runs |-> NoDF]
    /\ total_rows = [r \in Runs |-> 0]
    /\ first_chunk = [r \in Runs |-> TRUE]
    /\ table_name = [r \in Runs |-> Unbound]
    /\ sent = [r \in Runs |-> <<>>]
    /\ failed = [r \in Runs |-> FALSE]
    /\ escaped = [r \in Runs |-> FALSE]
    /\ cause = [r \in Runs |-> "none"]
    /\ fetched = [r \in Runs |-> <<>>]
    /\ loads = [r \in Runs |-> <<>>]

\* -------------------------------------------------------------- notifier
\* send_webhook: the POST and raise_for_status sit inside try/except
\* Exception, so no delivery failure leaves the function.
\* (a notifier that logs the delivery failure and raises it again)
send_webhook_reraises(delivered) == [logged_error |-> ~delivered, raised |-> ~delivered]

send_webhook(delivered) == [logged_error |-> ~delivered, raised |-> FALSE]

\* ---------------------------------------------------------------- loader
SetColumn(d, name, value) ==
    IF \E i \in 1..Len(d.cols) : d.cols[i] = name
    THEN LET k == CHOOSE i \in 1..Len(d.cols) : d.cols[i] = name
         IN  [d EXCEPT !.rows = [j \in 1..Len(d.rows) |-> [d.rows[j] EXCEPT ![k] = value]]]
    ELSE [cols |-> Append(d.cols, name),
          rows |-> [j \in 1..Len(d.rows) |-> Append(d.rows[j], value)]]

\* DataFrame.to_sql(table_name, engine, index=False, if_exists=...).
ToSql(tbl, d, if_exists) ==
    IF if_exists = "replace" \/ ~tbl.exists
    THEN [err |-> FALSE, tbl |-> [exists |-> TRUE, cols |-> d.cols, rows |-> d.rows]]
    ELSE IF tbl.cols = d.cols
         THEN [err |-> FALSE, tbl |-> [tbl EXCEPT !.rows = tbl.rows \o d.rows]]
    ELSE [err |-> TRUE, tbl |-> tbl]

\* (a loader that never replaces)
IfExistsAlwaysAppend(replace) == "append"

\* (a loader that ignores its replace flag)
IfExistsAlwaysReplace(replace) == "replace"

IfExists(replace) == IF replace THEN "replace" ELSE "append"

\* (a loader that stores the column names as they come)
save_dataframe_to_db_keeps_case(tbl, d, chat_id, replace) ==
    ToSql(tbl, SetColumn(d, ChatIdCol, chat_id), IfExists(replace))

save_dataframe_to_db(tbl, d, chat_id, replace) ==
    LET lowered == [d EXCEPT !.cols = [i \in 1..Len(d.cols) |-> Lower(d.cols[i])]]
        tagged == SetColumn(lowered, ChatIdCol, chat_id)
    IN  ToSql(tbl, tagged, IfExists(replace))

\* ------------------------------------------------------------- requests
\* A request is accepted when the run is still idle. Runs arrive in the order
\* of their numbers; with seq, a run starts only after the earlier ones ended.
MayStart(r, seq) ==
    /\ pc[r] = "idle"
    /\ \A q \in Runs : q < r =>
          IF seq THEN pc[q] \in Finished ELSE pc[q] # "idle"

\* Entry of process_csv_generic (lines 121-123), the fetcher not yet pulled.
Enter(r, kind, chat, name, src, at) ==
    /\ req' = [req EXCEPT ![r] = [kind |-> kind, chat |-> chat, name |-> name, src |-> src]]
    /\ pc' = [pc EXCEPT ![r] = at]
    /\ reader' = [reader EXCEPT ![r] = NoReader]
    /\ total_rows' = [total_rows EXCEPT ![r] = 0]
    /\ first_chunk' = [first_chunk EXCEPT ![r] = TRUE]
    /\ UNCHANGED <<files, tables, mode, df, table_name, sent, failed, escaped, cause,
                   fetched, loads>>

\* POST /process_csv: the Drive run is queued as a background task.
process_csv(r, seq) ==
    /\ MayStart(r, seq)
    /\ \E chat \in ChatIds, src \in Sources(r) :
          Enter(r, "drive", chat, "", src, "download")

\* process_and_store_spreadsheet called with a spreadsheet id.
process_and_store_spreadsheet(r, seq) ==
    /\ MayStart(r, seq)
    /\ \E chat \in ChatIds, src \in Sources(r) :
          Enter(r, "sheet", chat, "", src, "next")

\* process_csv_generic called with a fetch_df_fn of the caller's own: a
\* generator that yields the source's data rows in batches of chunksize (none
\* for a source without rows) and raises at a malformed line.
process_csv_generic(r, seq) ==
    /\ MayStart(r, seq)
    /\ \E chat \in ChatIds, src \in Sources(r) \ {<<>>} :
          Enter(r, "custom", chat, "", src, "next")

\* POST /upload_csv_stream, up to the first chunk of the spooling loop: the
\* reader over the uploaded bytes is built (an empty upload raises in the
\* handler and queues nothing).
upload_csv_stream(r, seq) ==
    /\ MayStart(r, seq)
    /\ \E chat \in ChatIds, name \in UploadNames, src \in Sources(r) :
          /\ req' = [req EXCEPT ![r] = [kind |-> "upload", chat |-> chat, name |-> name, src |-> src]]
          /\ IF ReadCsvFails(src)
             THEN /\ pc' = [pc EXCEPT ![r] = "aborted"]
                  /\ UNCHANGED reader
             ELSE /\ pc' = [pc EXCEPT ![r] = "spool"]
                  /\ reader' = [reader EXCEPT ![r] = ReadCsv(src, TRUE)]
    /\ mode' = [mode EXCEPT ![r] = "w"]
    /\ UNCHANGED <<files, tables, df, total_rows, first_chunk, table_name, sent,
                   failed, escaped, cause, fetched, loads>>

\* One turn of the spooling loop (lines 59-66), or its end and the queuing of
\* the background task (lines 69-71).
SpoolChunk(r) ==
    /\ pc[r] = "spool"
    /\ LET path == UploadPath(req[r].name)
           c == NextChunk(reader[r])
           text == ToCsvLines(c.df, ~files[path].exists)
       IN  IF c.res = "chunk"
           THEN /\ files' = [files EXCEPT ![path] =
                      IF mode[r] = "w" THEN File(text) ELSE File(files[path].lines \o text)]
                /\ mode' = [mode EXCEPT ![r] = "a"]
                /\ reader' = [reader EXCEPT ![r] = c.rd]
                /\ UNCHANGED <<pc, total_rows, first_chunk>>
           ELSE /\ pc' = [pc EXCEPT ![r] = "next"]
                /\ reader' = [reader EXCEPT ![r] = NoReader]
                /\ total_rows' = [total_rows EXCEPT ![r] = 0]
                /\ first_chunk' = [first_chunk EXCEPT ![r] = TRUE]
                /\ UNCHANGED <<files, mode>>
    /\ UNCHANGED <<req, tables, df, table_name, sent, failed, escaped, cause,
                   fetched, loads>>

\* ------------------------------------------------------------- fetchers
\* Where an exception raised inside the try of process_csv_generic goes: the
\* except branch of line 134, which ends the loop.
\* (no handler: the exception ends the run where it was raised)
ExceptBranchAbsent == "done"

\* (a handler inside the loop, which goes on with the next batch)
ExceptBranchInsideLoop == "next"

ExceptBranch == "notify_fail"

\* An exception c reaches that branch.
Raise(r, c) ==
    /\ pc' = [pc EXCEPT ![r] = ExceptBranch]
    /\ failed' = [failed EXCEPT ![r] = TRUE]
    /\ cause' = [cause EXCEPT ![r] = c]

\* What the fetcher raises and what the loader raises.
FetchErrors == {"download", "open", "parse", "remove"}
LoadErrors == {"load"}

\* os.remove(output) of fetch_drive_csv's finally clause.
RemoveTemp(fs) == [fs EXCEPT ![TempPath] = NoFile]

\* gdown.download(url, output), line 145, outside the try: it either writes
\* the whole source to /tmp/temp.csv, or raises, leaving the path as it was
\* ("fail") or holding the part received so far ("partial").
DownloadOutcomes == {"ok", "fail", "partial"}
fetch_drive_csv_download(r, outcome) ==
    /\ pc[r] = "download"
    /\ outcome \in DownloadOutcomes
    /\ IF outcome = "ok"
       THEN /\ files' = [files EXCEPT ![TempPath] = File(req[r].src)]
            /\ pc' = [pc EXCEPT ![r] = "next"]
            /\ UNCHANGED <<failed, cause>>
       ELSE /\ files' = IF outcome = "partial"
                        THEN [files EXCEPT ![TempPath] =
                                 File(SubSeq(req[r].src, 1, Min(1, Len(req[r].src))))]
                        ELSE files
            /\ Raise(r, "download")
    /\ UNCHANGED <<req, tables, reader, mode, df, total_rows, first_chunk,
                   table_name, sent, escaped, fetched, loads>>

\* The file a fetcher parses from disk.
FetchPath(r) == IF req[r].kind = "drive" THEN TempPath ELSE UploadPath(req[r].name)
\* (a fetch_uploaded_csv that parses the path and never removes it)
OnDiskDriveOnly(r) == req[r].kind = "drive"

OnDisk(r) == req[r].kind \in {"drive", "upload"}

\* The reader a fetcher builds on the first next(): fetch_drive_csv line 149,
\* fetch_spreadsheet line 158, fetch_uploaded_csv line 164, none of them with
\* on_bad_lines="skip"; a fetch_df_fn of the caller yields the data rows.
OpenFails(r, net) ==
    \/ req[r].kind = "sheet" /\ ~net
    \/ OnDisk(r) /\ ~files[FetchPath(r)].exists
    \/ OnDisk(r) /\ ReadCsvFails(files[FetchPath(r)].lines)
    \/ req[r].kind = "sheet" /\ ReadCsvFails(req[r].src)
OpenReader(r) ==
    IF req[r].kind = "custom"
    THEN [st |-> "open", cols |-> <<ColId>>, rest |-> Tail(req[r].src),
          first |-> FALSE, skip |-> FALSE]
    ELSE ReadCsv(IF OnDisk(r) THEN files[FetchPath(r)].lines ELSE req[r].src, FALSE)

\* One next() on the fetcher generator, from the for statement of line 125.
\* net: whether the spreadsheet export can be retrieved.
FetchNext(r, net) ==
    /\ pc[r] = "next"
    /\ IF reader[r].st = "new" /\ OpenFails(r, net)
       THEN /\ Raise(r, "open")
            /\ files' = IF req[r].kind = "drive" THEN RemoveTemp(files) ELSE files
            /\ reader' = [reader EXCEPT ![r].st = "closed"]
            /\ UNCHANGED <<df, fetched>>
       ELSE LET rd == IF reader[r].st = "new" THEN OpenReader(r) ELSE reader[r]
                c == NextChunk(rd)
            IN  CASE c.res = "chunk" ->
                       /\ df' = [df EXCEPT ![r] = c.df]
                       /\ fetched' = [fetched EXCEPT ![r] = Append(@, c.df)]
                       /\ reader' = [reader EXCEPT ![r] = c.rd]
                       /\ pc' = [pc EXCEPT ![r] = "load"]
                       /\ UNCHANGED <<files, failed, cause>>
                  [] c.res = "err" ->
                       /\ Raise(r, "parse")
                       /\ files' = IF req[r].kind = "drive" THEN RemoveTemp(files) ELSE files
                       /\ reader' = [reader EXCEPT ![r].st = "closed"]
                       /\ UNCHANGED <<df, fetched>>
                  [] c.res = "stop" ->
                       \* os.remove at line 152 (finally) and line 166.
                       /\ IF OnDisk(r) /\ ~files[FetchPath(r)].exists
                          THEN Raise(r, "remove") /\ UNCHANGED files
                          ELSE /\ pc' = [pc EXCEPT ![r] = "notify_ok"]
                               /\ files' = IF OnDisk(r)
                                           THEN [files EXCEPT ![FetchPath(r)] = NoFile]
                                           ELSE files
                               /\ UNCHANGED <<failed, cause>>
                       /\ reader' = [reader EXCEPT ![r].st = "closed"]
                       /\ UNCHANGED <<df, fetched>>
    /\ UNCHANGED <<req, tables, mode, total_rows, first_chunk, table_name, sent,
                   escaped, loads>>

\* ---------------------------------------------------------- orchestrator
\* Where the loop body ends: back at the for statement of line 125.
\* (the success notification sent from inside the loop body)
AfterLoadNotify == "notify_ok"

AfterLoad == "next"

\* What a to_sql that raises leaves of the table: to_sql writes inside one
\* transaction, which is rolled back.
\* (a replace whose DROP TABLE is committed before the insert fails)
FailedToSqlDrops(tbl, if_exists) == IF if_exists = "replace" THEN NoTable ELSE tbl

FailedToSql(tbl, if_exists) == tbl

\* The loop body, lines 126-128. ok: whether the database accepts the write.
\* A raising load drops the suspended generator, whose finally clause then
\* runs for the Drive fetcher (the uploaded file's removal sits after the
\* loop, not in a finally, and is skipped).
Load(r, ok) ==
    /\ pc[r] = "load"
    /\ LET t == sanitize_table_name(req[r].chat)
           res == save_dataframe_to_db(tables[t], df[r], req[r].chat, first_chunk[r])
       IN  IF ok /\ ~res.err
           THEN /\ tables' = [tables EXCEPT ![t] = res.tbl]
                /\ table_name' = [table_name EXCEPT ![r] = t]
                /\ total_rows' = [total_rows EXCEPT ![r] = @ + Len(df[r].rows)]
                /\ first_chunk' = [first_chunk EXCEPT ![r] = FALSE]
                /\ loads' = [loads EXCEPT ![r] =
                      Append(@, [if_exists |-> IfExists(first_chunk[r]), batch |-> Len(fetched[r])])]
                /\ pc' = [pc EXCEPT ![r] = AfterLoad]
                /\ UNCHANGED <<files, reader, failed, cause>>
           ELSE /\ Raise(r, "load")
                /\ tables' = [tables EXCEPT ![t] = FailedToSql(@, IfExists(first_chunk[r]))]
                /\ files' = IF req[r].kind = "drive" THEN RemoveTemp(files) ELSE files
                /\ reader' = [reader EXCEPT ![r].st = "closed"]
                /\ UNCHANGED <<table_name, total_rows, first_chunk, loads>>
    /\ UNCHANGED <<req, mode, df, sent, escaped, fetched>>

\* Lines 130-133: the success webhook, then the log line that reads
\* table_name, a local bound only by a load.
NotifySuccess(r, delivered) ==
    /\ pc[r] = "notify_ok"
    /\ sent' = [sent EXCEPT ![r] = Append(@, [text |-> "success", delivered |-> delivered])]
    /\ IF send_webhook(delivered).raised
       THEN Raise(r, "webhook")
       ELSE IF table_name[r] = Unbound
            THEN Raise(r, "log")
       ELSE pc' = [pc EXCEPT ![r] = "done"] /\ UNCHANGED <<failed, cause>>
    /\ UNCHANGED <<req, files, tables, reader, mode, df, total_rows, first_chunk,
                   table_name, escaped, fetched, loads>>

\* Lines 134-138: the except branch.
NotifyFailure(r, delivered) ==
    /\ pc[r] = "notify_fail"
    /\ sent' = [sent EXCEPT ![r] = Append(@, [text |-> "error", delivered |-> delivered])]
    /\ escaped' = [escaped EXCEPT ![r] = send_webhook(delivered).raised]
    /\ pc' = [pc EXCEPT ![r] = "done"]
    /\ UNCHANGED <<req, files, tables, reader, mode, df, total_rows, first_chunk,
                   table_name, failed, cause, fetched, loads>>

\* -------------------------------------------------------- specifications
\* Runs one after the other, with every failure of the environment.
Next ==
    \E r \in Runs :
       \/ process_csv(r, TRUE)
       \/ process_and_store_spreadsheet(r, TRUE)
       \/ process_csv_generic(r, TRUE)
       \/ upload_csv_stream(r, TRUE)
       \/ SpoolChunk(r)
       \/ \E o \in DownloadOutcomes : fetch_drive_csv_download(r, o)
       \/ \E net \in BOOLEAN : FetchNext(r, net)
       \/ \E ok \in BOOLEAN : Load(r, ok)
       \/ \E d \in BOOLEAN : NotifySuccess(r, d)
       \/ \E d \in BOOLEAN : NotifyFailure(r, d)

Spec == Init /\ [][Next]_vars

\* Runs side by side, the environment never failing: what differs from a run
\* alone is then the other run's doing.
NextConc ==
    \E r \in Runs :
       \/ process_csv(r, FALSE)
       \/ process_and_store_spreadsheet(r, FALSE)
       \/ process_csv_generic(r, FALSE)
       \/ upload_csv_stream(r, FALSE)
       \/ SpoolChunk(r)
       \/ fetch_drive_csv_download(r, "ok")
       \/ FetchNext(r, TRUE)
       \/ Load(r, TRUE)
       \/ NotifySuccess(r, TRUE)
       \/ NotifyFailure(r, TRUE)

SpecConc == Init /\ [][NextConc]_vars

\* ================================================================ claims
TableOf(r) == sanitize_table_name(req[r].chat)
Texts(r) == [i \in 1..Len(sent[r]) |-> sent[r][i].text]

\* The rows of a sequence of batches, each with the chat id as last field.
RECURSIVE RowsOfBatches(_, _)
RowsOfBatches(dfs, chat) ==
    IF dfs = <<>> THEN <<>>
    ELSE [i \in 1..Len(Head(dfs).rows) |-> Append(Head(dfs).rows[i], chat)]
         \o RowsOfBatches(Tail(dfs), chat)

\* No later run has written the table of run r.
LastWriter(r) ==
    \A q \in Runs : q > r => (loads[q] = <<>> \/ TableOf(q) # TableOf(r))

IsLowercase(name) == \A i \in 1..Len(name) : name[i] \notin AsciiUpper \cup {"I."}

\* C1: every run of process_csv_generic calls send_webhook exactly once
\* before it ends, whatever the number of batches: never zero times, never a
\* success and a failure notification in the same run.
C1_NotifiedExactlyOnce ==
    \A r \in Runs :
       /\ Len(sent[r]) <= 1
       /\ pc[r] = "done" => Len(sent[r]) = 1

\* C2: within a run the table is replaced at most once, by the load of the
\* first batch fetched; every later batch is appended, and first_chunk is
\* false from the first load on.
C2_ReplaceOnlyOnFirstBatch ==
    \A r \in Runs :
       /\ \A i \in 1..Len(loads[r]) :
             /\ loads[r][i].batch = i
             /\ (loads[r][i].if_exists = "replace") <=> (i = 1)
       /\ loads[r] # <<>> => ~first_chunk[r]

C2_Witness ==
    \E r \in Runs : pc[r] = "done" /\ Len(loads[r]) >= 3

\* C3: after a successful run with no other run on its table, the table named
\* sanitize(chatId) holds the fetched batches in fetch order: total_rows rows,
\* each with chat_id equal to the chatId, under lowercase column names.
C3_TableIsConcatenation ==
    \A r \in Runs :
       pc[r] = "done" /\ ~failed[r] /\ LastWriter(r) =>
          LET t == tables[TableOf(r)]
          IN  /\ t.exists
              /\ table_name[r] = TableOf(r)
              /\ t.rows = RowsOfBatches(fetched[r], req[r].chat)
              /\ Len(t.rows) = total_rows[r]
              /\ \E k \in 1..Len(t.cols) :
                    /\ t.cols[k] = ChatIdCol
                    /\ \A i \in 1..Len(t.rows) : t.rows[i][k] = req[r].chat
              /\ \A j \in 1..Len(t.cols) : IsLowercase(t.cols[j])

C3_Witness ==
    \E r \in Runs :
       /\ pc[r] = "done" /\ ~failed[r] /\ LastWriter(r)
       /\ Len(fetched[r]) >= 2 /\ total_rows[r] >= 2
       /\ req[r].chat = <<"A">>

\* C4: an error of the fetcher or the loader at batch k stops the iteration:
\* nothing is fetched or loaded after it, the batches 1..k-1 stay in the table
\* as written, and the run ends failed, with a failure notification and no
\* success notification.
C4_StopsAtFailure ==
    \A r \in Runs :
       cause[r] \in FetchErrors \cup LoadErrors =>
          /\ pc[r] \in {"notify_fail", "done"}
          /\ failed[r]
          /\ Texts(r) = IF pc[r] = "done" THEN <<"error">> ELSE <<>>
          /\ Len(loads[r]) = IF cause[r] \in LoadErrors
                             THEN Len(fetched[r]) - 1 ELSE Len(fetched[r])
          /\ loads[r] # <<>> /\ LastWriter(r) =>
                tables[TableOf(r)].rows =
                   RowsOfBatches(SubSeq(fetched[r], 1, Len(loads[r])), req[r].chat)

C4_Frozen ==
    \A r \in Runs :
       /\ cause[r] = "none" /\ cause'[r] \in FetchErrors \cup LoadErrors =>
             tables' = tables /\ loads'[r] = loads[r]
       /\ cause[r] \in FetchErrors \cup LoadErrors =>
             /\ fetched'[r] = fetched[r] /\ loads'[r] = loads[r]
             /\ pc[r] # "done" => tables' = tables

C4_FailureStopsRun == [] C4_StopsAtFailure /\ [][C4_Frozen]_vars

\* The fetcher fails on batch 2 in one run, the loader on batch 2 in another.
C4_Witness ==
    \E r, q \in Runs :
       /\ pc[r] = "done" /\ cause[r] = "parse" /\ Len(loads[r]) = 1
       /\ Len(tables[TableOf(r)].rows) = 1
       /\ pc[q] = "done" /\ cause[q] = "load" /\ Len(loads[q]) = 1
       /\ Len(tables[TableOf(q)].rows) = 1

\* C5: when the batch sequence ends without an error of the fetcher or the
\* loader, for any number of batches, the run ends in success: the success
\* notification is sent and the except branch is not taken.
C5_ExhaustionMeansSuccess ==
    \A r \in Runs :
       pc[r] = "done" /\ cause[r] \notin FetchErrors \cup LoadErrors =>
          ~failed[r] /\ Texts(r) = <<"success">>

\* What a Drive run gives alone, the environment not failing.
RECURSIVE AllChunks(_)
AllChunks(rd) ==
    LET c == NextChunk(rd)
    IN  IF c.res = "chunk"
        THEN LET more == AllChunks(c.rd)
             IN  [dfs |-> <<c.df>> \o more.dfs, err |-> more.err]
        ELSE [dfs |-> <<>>, err |-> c.res = "err"]
AloneFetch(r) ==
    IF ReadCsvFails(req[r].src) THEN [dfs |-> <<>>, err |-> TRUE]
    ELSE AllChunks(ReadCsv(req[r].src, FALSE))

\* A source with a header, at least one data line and no malformed line.
WellFormed(src) == Len(src) >= 2 /\ \A i \in 1..Len(src) : ~src[i].bad

\* C6: two concurrent runs with different chatIds, here two Drive-file runs
\* writing different tables, share no state: each fetches the batches, ends
\* with the outcome and leaves the table it would alone.
C6_DriveRunsIndependent ==
    \A r, q \in Runs :
       /\ r # q /\ pc[r] = "done" /\ pc[q] = "done"
       /\ req[r].kind = "drive" /\ req[q].kind = "drive"
       /\ req[r].chat # req[q].chat /\ TableOf(r) # TableOf(q)
       /\ WellFormed(req[r].src) /\ WellFormed(req[q].src)
       => /\ fetched[r] = AloneFetch(r).dfs
          /\ failed[r] = AloneFetch(r).err
          /\ tables[TableOf(r)].rows = RowsOfBatches(AloneFetch(r).dfs, req[r].chat)

\* The rows the source of run r holds, as the loader stores them.
SourceRows(r) ==
    {Append(req[r].src[i].f, req[r].chat) : i \in 2..Len(req[r].src)}
\* The rows run r wrote.
WrittenBy(r) ==
    LET rows == RowsOfBatches(SubSeq(fetched[r], 1, Len(loads[r])), req[r].chat)
    IN  {rows[i] : i \in 1..Len(rows)}

\* C7: after two runs with the same chatId, one after the other, the second
\* one successful, the table holds rows of the second run's source only and
\* no row the first run wrote.
C7_SecondRunReplaces ==
    \A q, r \in Runs :
       /\ q < r /\ req[q].chat = req[r].chat
       /\ pc[q] = "done" /\ pc[r] = "done" /\ ~failed[r]
       => LET t == tables[TableOf(r)]
          IN  \A i \in 1..Len(t.rows) :
                 t.rows[i] \in SourceRows(r) /\ t.rows[i] \notin WrittenBy(q)

C7_Witness ==
    \E q, r \in Runs :
       /\ q < r /\ req[q].chat = req[r].chat
       /\ pc[q] = "done" /\ pc[r] = "done" /\ ~failed[r]
       /\ Len(loads[q]) >= 2 /\ Len(loads[r]) >= 1
       /\ tables[TableOf(r)].rows # <<>>

\* C8: a delivery failure inside send_webhook is not raised and does not
\* change the outcome: a run that loaded its batches and whose success
\* webhook failed is successful and sends no failure notification, and no
\* exception leaves process_csv_generic.
C8_NotifierFailureSwallowed ==
    \A r \in Runs :
       /\ ~escaped[r]
       /\ ( /\ pc[r] = "done" /\ table_name[r] # Unbound
            /\ sent[r] # <<>> /\ sent[r][1] = [text |-> "success", delivered |-> FALSE] )
          => ~failed[r] /\ Len(sent[r]) = 1

\* The success webhook fails in one run, the failure webhook in another.
C8_Witness ==
    \E r, q \in Runs :
       /\ pc[r] = "done" /\ ~failed[r] /\ total_rows[r] >= 1
       /\ sent[r] = <<[text |-> "success", delivered |-> FALSE]>>
       /\ pc[q] = "done" /\ failed[q]
       /\ sent[q] = <<[text |-> "error", delivered |-> FALSE]>>

\* C9: once a Drive-file run has ended, /tmp/temp.csv does not exist, on
\* every exit path.
C9_TempFileRemoved ==
    \A r \in Runs :
       req[r].kind = "drive" /\ pc[r] = "done" => ~files[TempPath].exists

\* C10: malformed lines among well-formed ones fail no run of the three
\* fetchers: they are skipped.
C10_MalformedLinesSkipped ==
    \A r \in Runs :
       /\ req[r].kind \in {"drive", "sheet", "upload"}
       /\ \E i \in 2..Len(req[r].src) : req[r].src[i].bad
       /\ \E i \in 2..Len(req[r].src) : ~req[r].src[i].bad
       => cause[r] # "parse"

\* ------------------------------------------------- the table namer alone
\* Length of a chat id at most.
MaxNameLen == 3
\* The chat ids a request may carry: every string over Chars up to that length.
Names == UNION {[1..k -> Chars] : k \in 0..MaxNameLen}

\* A first request with any chat id, not yet served.
InitSan ==
    /\ \E n \in Names :
          req = [r \in Runs |-> IF r = 1 THEN [NoReq EXCEPT !.chat = n] ELSE NoReq]
    /\ pc = [r \in Runs |-> "idle"]
    /\ files = [p \in Paths |-> NoFile]
    /\ tables = [t \in TableNames |-> NoTable]
    /\ reader = [r \in Runs |-> NoReader]
    /\ mode = [r \in Runs |-> "w"]
    /\ df = [r \in Runs |-> NoDF]
    /\ total_rows = [r \in Runs |-> 0]
    /\ first_chunk = [r \in Runs |-> TRUE]
    /\ table_name = [r \in Runs |-> Unbound]
    /\ sent = [r \in Runs |-> <<>>]
    /\ failed = [r \in Runs |-> FALSE]
    /\ escaped = [r \in Runs |-> FALSE]
    /\ cause = [r \in Runs |-> "none"]
    /\ fetched = [r \in Runs |-> <<>>]
    /\ loads = [r \in Runs |-> <<>>]

\* Line 101: table_name = sanitize_table_name(chat_id), for the first request.
NameTable(r) ==
    /\ r = 1
    /\ table_name[r] = Unbound
    /\ table_name' = [table_name EXCEPT ![r] = sanitize_table_name(req[r].chat)]
    /\ UNCHANGED <<pc, req, files, tables, reader, mode, df, total_rows,
                   first_chunk, sent, failed, escaped, cause, fetched, loads>>

NextSan == \E r \in Runs : NameTable(r)

SpecSan == InitSan /\ [][NextSan]_vars

\* C11: for every input string, sanitize_table_name gives a name that matches
\* ^[a-zA-Z][a-zA-Z0-9_]*$ and holds no uppercase character.
C11_NameIsSafeIdentifier ==
    \A r \in Runs :
       table_name[r] # Unbound =>
          LET t == table_name[r]
          IN  /\ Len(t) >= 1
              /\ IsAsciiLetter(t[1])
              /\ \A i \in 1..Len(t) :
                    /\ IsAsciiLetter(t[i]) \/ t[i] \in AsciiDigit \/ t[i] = "_"
                    /\ t[i] \notin AsciiUpper \cup {"I."}

\* C12: sanitize_table_name is idempotent: applied to its own result it
\* changes nothing, so the prefix is never added twice.
C12_SanitizeIdempotent ==
    \A r \in Runs :
       table_name[r] # Unbound =>
          sanitize_table_name(table_name[r]) = table_name[r]

\* C13: no error of the fetcher or of save_dataframe_to_db leaves a run: after
\* any such error process_csv_generic is in its except branch, which can
\* always go on, and returns with the failure notification sent.
C13_ErrorsDoNotEscape ==
    \A r \in Runs :
       cause[r] \in FetchErrors \cup LoadErrors =>
          /\ ~escaped[r]
          /\ pc[r] = "notify_fail" \/ pc[r] = "done"
          /\ pc[r] = "notify_fail" => ENABLED NotifyFailure(r, FALSE)
          /\ pc[r] = "done" => Texts(r) = <<"error">>

\* An error of the fetcher before any batch in one run, of the first load in
\* another; both runs have returned.
C13_Witness ==
    \E r, q \in Runs :
       /\ pc[r] = "done" /\ cause[r] \in FetchErrors /\ fetched[r] = <<>>
       /\ pc[q] = "done" /\ cause[q] \in LoadErrors /\ loads[q] = <<>>
       /\ ~escaped[r] /\ ~escaped[q]

\* The rows run r fetched, as the loader stores them.
RowsOf(r) == RowsOfBatches(fetched[r], req[r].chat)

\* Whether the sequence a is b with some elements left out.
RECURSIVE IsSubsequence(_, _)
IsSubsequence(a, b) ==
    IF a = <<>> THEN TRUE
    ELSE IF b = <<>> THEN FALSE
    ELSE IF Head(a) = Head(b) THEN IsSubsequence(Tail(a), Tail(b))
    ELSE IsSubsequence(a, Tail(b))

\* Two runs with the same chatId, run side by side, both ended in success.
BothSucceeded(r, q) ==
    /\ r # q /\ req[r].chat = req[q].chat
    /\ pc[r] = "done" /\ pc[q] = "done" /\ ~failed[r] /\ ~failed[q]

\* C14: two concurrent runs with the same chatId are not kept apart and race
\* on the table batch by batch, the last writer winning: when both succeed,
\* every row of the table was written by one of them and the batches of the
\* run that replaced last are all there in order, but the table need not be
\* what either run leaves alone (the witness).
C14_LastWriterWinsPerBatch ==
    \A r, q \in Runs :
       BothSucceeded(r, q) =>
          LET t == tables[TableOf(r)]
          IN  /\ \A i \in 1..Len(t.rows) : t.rows[i] \in WrittenBy(r) \cup WrittenBy(q)
              /\ IsSubsequence(RowsOf(r), t.rows) \/ IsSubsequence(RowsOf(q), t.rows)

\* Both runs report success and the table is the concatenation of the batches
\* of neither: it holds rows of both.
C14_Witness ==
    \E r, q \in Runs :
       /\ BothSucceeded(r, q)
       /\ Texts(r) = <<"success">> /\ Texts(q) = <<"success">>
       /\ req[r].kind = "drive" /\ req[q].kind = "sheet"
       /\ tables[TableOf(r)].rows # RowsOf(r)
       /\ tables[TableOf(r)].rows # RowsOf(q)
       /\ Len(tables[TableOf(r)].rows) > Len(RowsOf(r))

\* No later upload has used the path of run r.
LastUploader(r) ==
    \A q \in Runs : q > r => (req[q].kind # "upload" \/ req[q].name # req[r].name)

\* The errors that end an upload run before its batch sequence is exhausted.
BeforeExhaustion == {"open", "parse", "load"}

\* C15 as stated: after every run of the Uploaded-stream fetcher that has
\* ended, in success or in failure, the file at the uploaded path is gone.
C15_UploadFileGone ==
    \A r \in Runs :
       req[r].kind = "upload" /\ pc[r] = "done" /\ LastUploader(r) =>
          ~files[UploadPath(req[r].name)].exists

\* C15 as amended: the uploaded file is removed exactly when the batch
\* sequence is exhausted without error: it is there while the run fetches and
\* loads, gone after a run that exhausted the sequence, and still there after
\* a run that ended on an error before exhaustion.
C15_UploadRemovedOnExhaustion ==
    \A r \in Runs :
       req[r].kind = "upload" /\ LastUploader(r) =>
          /\ pc[r] = "load" => files[UploadPath(req[r].name)].exists
          /\ pc[r] = "done" =>
                (files[UploadPath(req[r].name)].exists <=> cause[r] \in BeforeExhaustion)

\* One upload run ended on a loader error with its file left, another
\* exhausted its batches and removed its file.
C15_Witness ==
    \E r, q \in Runs :
       /\ req[r].kind = "upload" /\ pc[r] = "done" /\ cause[r] = "load"
       /\ files[UploadPath(req[r].name)].exists
       /\ req[q].kind = "upload" /\ pc[q] = "done" /\ ~failed[q]
       /\ req[q].name # req[r].name
       /\ ~files[UploadPath(req[q].name)].exists

\* C16: the success webhook is sent only after every batch the fetcher
\* produces has been fetched and loaded, and no load follows it.
C16_AllLoaded ==
    \A r \in Runs :
       (\E i \in 1..Len(sent[r]) : sent[r][i].text = "success") =>
          /\ reader[r].st = "closed" /\ reader[r].rest = <<>>
          /\ Len(loads[r]) = Len(fetched[r])
          /\ pc[r] \in {"notify_fail", "done"}

C16_NoLoadAfter ==
    \A r \in Runs :
       sent[r] # <<>> => loads'[r] = loads[r] /\ fetched'[r] = fetched[r]

C16_SuccessAfterAllLoads == [] C16_AllLoaded /\ [][C16_NoLoadAfter]_vars

C16_Witness ==
    \E r \in Runs :
       /\ Texts(r) = <<"success">> /\ pc[r] = "done"
       /\ Len(loads[r]) = 3 /\ total_rows[r] = 3

\* C17: a run that fails before its first batch is loaded, or that produces
\* no batch, writes nothing: such a run ends without a load, and no step of a
\* run that has not loaded a batch changes a table, so the table an earlier
\* run left keeps its content.
C17_EndsWithoutLoad ==
    \A r \in Runs :
       pc[r] = "done" /\ (fetched[r] = <<>> \/ (Len(fetched[r]) = 1 /\ cause[r] = "load"))
          => loads[r] = <<>>

C17_StepWritesNothing ==
    \A r \in Runs :
       pc[r] \notin {"idle"} \cup Finished /\ loads'[r] = <<>> => tables' = tables

RECURSIVE GoodLines(_)
GoodLines(lines) ==
    IF lines = <<>> THEN <<>>
    ELSE IF Head(lines).bad THEN GoodLines(Tail(lines))
    ELSE <<Head(lines)>> \o GoodLines(Tail(lines))

\* C18: when upload_csv_stream has spooled an upload, the file at
\* /tmp/<filename> is one header row followed by that upload's rows, whatever
\* was at the path before.
C18_SpoolHasHeader ==
    \A r \in Runs :
       req[r].kind = "upload" /\ pc[r] = "next" /\ reader[r].st = "new" =>
          files[UploadPath(req[r].name)] = File(GoodLines(req[r].src))

====
